---- MODULE Spec2Model ----
(***************************************************************************)
(* Model of the Thorin Joi plugin (lib/joi.js): the schema registry, the   *)
(* validate pipeline, the translation of engine exceptions into the        *)
(* field-indexed DATA.INVALID error, and the array coercion of inputs.     *)
(*                                                                         *)
(* JavaScript strings that the code takes apart (messages, dotted paths,   *)
(* object keys, input strings) are sequences of one-character strings.     *)
(* Names that are only compared (error codes, violation kinds, registry    *)
(* identifiers) are TLA+ strings.                                          *)
(***************************************************************************)
EXTENDS Integers, Sequences, FiniteSets, TLC

VARIABLES
    schemas,    \* #schemas: own properties of the registry object, id -> heap ref (0: none)
    heap,       \* the schema instances created so far: <<[def, arrayDefs]>>
    lastSchema, \* what the most recent schema() call got and returned
    objs,       \* the callers' input objects, by reference
    opts,       \* the callers' option objects, by reference
    calls,      \* the validate() invocations, each with its position and locals
    stack       \* the schema() calls whose factory is running, innermost last

vars == <<schemas, heap, lastSchema, objs, opts, calls, stack>>

----------------------------------------------------------------------------
(* JavaScript values *)

Undef == [t |-> "undefined"]
Null == [t |-> "null"]
Str(s) == [t |-> "string", s |-> s]
Num(n) == [t |-> "number", n |-> n]
Obj(f) == [t |-> "object", f |-> f]
\* An array is its index-keyed properties "0", "1", ...
Digits == <<"0", "1", "2", "3", "4", "5", "6", "7", "8", "9">>
RECURSIVE IndexKey(_)
\* the property key of index i: its decimal digits
IndexKey(i) == IF i < 10 THEN <<Digits[i + 1]>> ELSE IndexKey(i \div 10) \o <<Digits[(i % 10) + 1]>>
Arr(e) == [t |-> "array", f |-> [k \in {IndexKey(i - 1) : i \in 1..Len(e)} |->
                                   LET i == CHOOSE j \in 1..Len(e) : IndexKey(j - 1) = k IN e[i]]]
EmptyObj == Obj(<<>>)

TypeOf(v) == IF v.t \in {"null", "object", "array"} THEN "object" ELSE v.t
IsArray(v) == v.t = "array"
HasProps(v) == v.t \in {"object", "array"}
\* v[k] for a non-null object or array
Get(v, k) == IF k \in DOMAIN v.f THEN v.f[k] ELSE Undef
\* v[k] = x
Set(v, k, x) == [v EXCEPT !.f = [j \in (DOMAIN v.f) \cup {k} |-> IF j = k THEN x ELSE v.f[j]]]
\* Object.keys(v)
ObjectKeys(v) == DOMAIN v.f

----------------------------------------------------------------------------
(* JavaScript string operations, as the code uses them *)

\* s.substr(from): the characters from index `from` (0-based) to the end
SubstrFrom(s, from) == IF from >= Len(s) THEN <<>> ELSE SubSeq(s, from + 1, Len(s))
\* s.substr(0, n)
SubstrTo(s, n) == IF n >= Len(s) THEN s ELSE SubSeq(s, 1, n)

UpperOf(c) ==
    CASE c = "a" -> "A" [] c = "b" -> "B" [] c = "c" -> "C" [] c = "d" -> "D"
      [] c = "p" -> "P" [] c = "q" -> "Q" [] c = "r" -> "R" [] c = "x" -> "X"
      [] c = "y" -> "Y" [] c = "v" -> "V" [] OTHER -> c
\* s.charAt(0).toUpperCase() + s.substr(1)
Capitalize(s) == IF s = <<>> THEN <<>> ELSE <<UpperOf(s[1])>> \o SubstrFrom(s, 1)

RECURSIVE Join(_, _)
\* segs.join(sep)
Join(segs, sep) ==
    IF segs = <<>> THEN <<>>
    ELSE IF Len(segs) = 1 THEN segs[1]
    ELSE segs[1] \o <<sep>> \o Join(Tail(segs), sep)

RECURSIVE SplitFrom(_, _, _)
\* the pieces of s after `cur`, the piece being read
SplitFrom(s, sep, cur) ==
    IF s = <<>> THEN <<cur>>
    ELSE IF s[1] = sep THEN <<cur>> \o SplitFrom(Tail(s), sep, <<>>)
    ELSE SplitFrom(Tail(s), sep, Append(cur, s[1]))
\* s.split(sep)
Split(s, sep) == SplitFrom(s, sep, <<>>)

RECURSIVE TrimLeft(_)
TrimLeft(s) == IF s # <<>> /\ s[1] = " " THEN TrimLeft(Tail(s)) ELSE s
RECURSIVE TrimRight(_)
TrimRight(s) == IF s # <<>> /\ s[Len(s)] = " " THEN TrimRight(SubSeq(s, 1, Len(s) - 1)) ELSE s
\* s.trim()
Trim(s) == TrimRight(TrimLeft(s))

\* s.indexOf(c) !== -1
Contains(s, c) == \E i \in 1..Len(s) : s[i] = c

----------------------------------------------------------------------------
(* Schema nodes of the engine, as far as the plugin reads them:             *)
(*   type      schema.type                                                  *)
(*   keys      schema._ids._byKey, in insertion order: <<[id, schema]>>     *)
(*   messages  schema._preferences.messages: kind -> rendered text          *)

Node(type, keys, messages) == [type |-> type, keys |-> keys, messages |-> messages]
Entry(id, schema) == [id |-> id, schema |-> schema]
NoMessages == <<>>

\* node._ids._byKey.get(f): the entry, or undefined
HasKey(node, f) == \E i \in 1..Len(node.keys) : node.keys[i].id = f
ByKeyGet(node, f) == node.keys[CHOOSE i \in 1..Len(node.keys) : node.keys[i].id = f]

----------------------------------------------------------------------------
(* getSchemaArrays: the dotted paths of the array-typed nodes that are      *)
(* reached from the root through object-typed nodes                         *)

RECURSIVE getSchemaArrays(_, _)
RECURSIVE ChildArrays(_, _, _)
\* the loop over schema._ids._byKey.values(), from entry i on
ChildArrays(schema, field, i) ==
    IF i > Len(schema.keys) THEN <<>>
    ELSE LET sc == schema.keys[i]
             sub == (IF field = <<>> THEN <<>> ELSE field \o <<".">>) \o sc.id
         IN getSchemaArrays(sc.schema, sub) \o ChildArrays(schema, field, i + 1)

getSchemaArrays(schema, field) ==
    (IF schema.type = "object" THEN ChildArrays(schema, field, 1) ELSE <<>>)
    \o (IF schema.type = "array" THEN <<field>> ELSE <<>>)

----------------------------------------------------------------------------
(* convertInputArrays *)

RECURSIVE At(_, _)
\* the value reached from v through the keys of loc
At(v, loc) == IF loc = <<>> THEN v ELSE At(Get(v, loc[1]), Tail(loc))

RECURSIVE SetAt(_, _, _, _)
\* fieldObj[k] = x, where fieldObj is the object reached from v through loc
SetAt(v, loc, k, x) ==
    IF loc = <<>> THEN Set(v, k, x)
    ELSE Set(v, loc[1], SetAt(Get(v, loc[1]), Tail(loc), k, x))

RECURSIVE WalkSubs(_, _, _, _, _)
\* the loop over the non-final segments: fieldObj is At(data, loc). Reading a
\* property of null throws.
WalkSubs(data, subs, j, loc, isValid) ==
    IF j > Len(subs) - 1 THEN [threw |-> FALSE, isValid |-> isValid, loc |-> loc]
    ELSE LET fieldObj == At(data, loc) IN
         IF fieldObj = Null THEN [threw |-> TRUE, isValid |-> isValid, loc |-> loc]
         ELSE IF TypeOf(Get(fieldObj, subs[j])) = "object"
              THEN WalkSubs(data, subs, j + 1, Append(loc, subs[j]), isValid)
              ELSE WalkSubs(data, subs, j + 1, loc, FALSE)

\* pieces kept as they were cut
MapNoTrim(pieces) == [i \in 1..Len(pieces) |-> Str(pieces[i])]
RECURSIVE MapTrim(_)
\* line 234: .map(v => v.trim())
MapTrim(pieces) == IF pieces = <<>> THEN <<>> ELSE <<Str(Trim(pieces[1]))>> \o MapTrim(Tail(pieces))

\* the body of the try block for one non-root path and a non-null object data:
\* the data it leaves, and whether it threw (a property of null was read)
TryField(f, data) ==
    LET subs == Split(f, ".")
        w == WalkSubs(data, subs, 1, <<>>, TRUE)
        lastKey == subs[Len(subs)]
        fieldObj == At(data, w.loc)
        currentValue == Get(fieldObj, lastKey)
        left(d) == [threw |-> FALSE, data |-> d]
    IN IF w.threw THEN [threw |-> TRUE, data |-> data]
       ELSE IF ~w.isValid THEN left(data)
       ELSE IF fieldObj = Null THEN [threw |-> TRUE, data |-> data]
       ELSE IF currentValue = Undef \/ IsArray(currentValue) THEN left(data)
       ELSE IF currentValue.t = "string" /\ currentValue.s # <<>>
            THEN IF Contains(currentValue.s, ",")
                 THEN left(SetAt(data, w.loc, lastKey, Arr(MapTrim(Split(currentValue.s, ",")))))
                 ELSE left(SetAt(data, w.loc, lastKey, Arr(<<currentValue>>)))
       ELSE left(SetAt(data, w.loc, lastKey, Arr(<<currentValue>>)))

\* an exception that leaves the loop body as it was thrown
PropagateException(r) == r
\* line 241: catch (e) {}
SwallowException(r) == [threw |-> FALSE, data |-> r.data]

\* one iteration of the loop for a non-root path: the try block and its catch
ConvertField(f, data) == SwallowException(TryField(f, data))

RECURSIVE ConvertFrom(_, _, _)
\* the loop over fields, from fields[i] on. The result says whether the returned
\* value is a new array (fresh) or data itself, changed in place, and whether an
\* exception left the function instead (raised).
ConvertFrom(fields, i, data) ==
    IF i > Len(fields) THEN [fresh |-> FALSE, value |-> data, raised |-> FALSE]
    ELSE IF fields[i] = <<>>
         THEN IF IsArray(data) THEN [fresh |-> FALSE, value |-> data, raised |-> FALSE]
              ELSE [fresh |-> TRUE, value |-> Arr(<<data>>), raised |-> FALSE]
    ELSE IF TypeOf(data) # "object" \/ data = Null
         THEN [fresh |-> FALSE, value |-> data, raised |-> FALSE]
    ELSE LET r == ConvertField(fields[i], data)
         IN IF r.threw THEN [fresh |-> FALSE, value |-> r.data, raised |-> TRUE]
            ELSE ConvertFrom(fields, i + 1, r.data)

convertInputArrays(fields, data) == ConvertFrom(fields, 1, data)

----------------------------------------------------------------------------
(* getSchemaField: the walk pops the path from its LAST segment and reads   *)
(* $p._ids._byKey at each step. $p is the schema, an entry {schema, id} of  *)
(* a keyed-child index, or undefined; only the schema has _ids, so the read *)
(* throws on the other two and the loop breaks.                             *)

PSchema(node) == [k |-> "schema", id |-> <<>>, schema |-> node]
PEntry(e) == [k |-> "entry", id |-> e.id, schema |-> e.schema]
PUndefined == [k |-> "undefined"]
NoDef == [k |-> "null"]

RECURSIVE WalkBack(_, _)
WalkBack(r, p) ==
    IF r = <<>> THEN p
    ELSE LET f == r[Len(r)]
             rest == SubSeq(r, 1, Len(r) - 1)
         IN IF p.k = "schema"
            THEN WalkBack(rest, IF HasKey(p.schema, f) THEN PEntry(ByKeyGet(p.schema, f))
                                ELSE PUndefined)
            ELSE p

getSchemaField(schema, path) ==
    LET p == WalkBack(path, PSchema(schema)) IN
    CASE p.k = "undefined" -> NoDef
      [] p.k = "entry" -> IF p.id = path[Len(path)] THEN p ELSE NoDef
      \* the schema itself has no id: undefined === path[-1] only for the empty path
      [] p.k = "schema" -> IF path = <<>> THEN p ELSE NoDef

\* def.schema?._preferences?.messages
DefMessages(def) == IF def.k = "entry" THEN def.schema.messages ELSE NoMessages

----------------------------------------------------------------------------
(* handleJoiException *)

\* what the catch of validate can get: a falsy value, an error without details, a
\* validation error with its details <<[path, type, message]>>, an error whose
\* details is a non-empty string (it has a length, its items have no path), or an
\* error whose details is truthy and has no length (true, a number, a plain object)
FalsyException == [k |-> "falsy", details |-> <<>>]
PlainException == [k |-> "error", details |-> <<>>]
ValidationException(details) == [k |-> "validation", details |-> details]
MalformedException == [k |-> "malformed", details |-> <<>>]
LengthlessException == [k |-> "lengthless", details |-> <<>>]

GenericError == [code |-> "DATA.INVALID", message |-> "Please provide valid data",
                 hasFields |-> FALSE, fields |-> <<>>]
StructuredError(fields) == [code |-> "DATA.INVALID", message |-> "Request contains errors",
                            hasFields |-> TRUE, fields |-> fields]
\* a TypeError of the runtime, thrown by the translator's own statements
RawTypeError == [code |-> "TypeError", message |-> "not a function",
                 hasFields |-> FALSE, fields |-> <<>>]

\* lines 157-160: drop the leading field path and one more character, then capitalize
StripFieldPath(msg, fieldPath) ==
    LET m == IF SubstrTo(msg, Len(fieldPath)) = fieldPath
             THEN SubstrFrom(msg, Len(fieldPath) + 1) ELSE msg
    IN Capitalize(m)

\* lines 143-156: the message of detail d on node def, and whether "any" was used
ChooseMessage(d, def) ==
    LET allMsg == DefMessages(def) IN
    IF d.type \in DOMAIN allMsg THEN [msg |-> allMsg[d.type], any |-> FALSE]
    ELSE IF "any" \in DOMAIN allMsg THEN [msg |-> allMsg["any"], any |-> TRUE]
    ELSE [msg |-> d.message, any |-> FALSE]

\* err.data.fields is a plain object: a read of one of these names, when it is no
\* own key, gives the member of Object.prototype, which is truthy and no list
ValueOfKey == <<"v", "a", "l", "u", "e", "O", "f">>
InheritedNames ==
    {<<"c", "o", "n", "s", "t", "r", "u", "c", "t", "o", "r">>,
     <<"_", "_", "p", "r", "o", "t", "o", "_", "_">>,
     <<"h", "a", "s", "O", "w", "n", "P", "r", "o", "p", "e", "r", "t", "y">>,
     <<"i", "s", "P", "r", "o", "t", "o", "t", "y", "p", "e", "O", "f">>,
     <<"p", "r", "o", "p", "e", "r", "t", "y", "I", "s", "E", "n", "u", "m", "e", "r", "a", "b", "l", "e">>,
     <<"t", "o", "L", "o", "c", "a", "l", "e", "S", "t", "r", "i", "n", "g">>,
     <<"t", "o", "S", "t", "r", "i", "n", "g">>,
     <<"v", "a", "l", "u", "e", "O", "f">>,
     <<"_", "_", "d", "e", "f", "i", "n", "e", "G", "e", "t", "t", "e", "r", "_", "_">>,
     <<"_", "_", "d", "e", "f", "i", "n", "e", "S", "e", "t", "t", "e", "r", "_", "_">>,
     <<"_", "_", "l", "o", "o", "k", "u", "p", "G", "e", "t", "t", "e", "r", "_", "_">>,
     <<"_", "_", "l", "o", "o", "k", "u", "p", "S", "e", "t", "t", "e", "r", "_", "_">>}

\* line 142: if (!err.data.fields[fieldPath]) err.data.fields[fieldPath] = []
EnsureKey(fields, fieldPath) ==
    IF fieldPath \in DOMAIN fields \/ fieldPath \in InheritedNames THEN fields
    ELSE [p \in (DOMAIN fields) \cup {fieldPath} |-> IF p = fieldPath THEN <<>> ELSE fields[p]]

RECURSIVE TranslateFrom(_, _, _, _, _)
\* the loop over e.details from detail i on, with the fields built so far: the
\* fields at the end, or threw when line 161 calls push on what is no list
TranslateFrom(details, schema, i, fields, fieldsWithAny) ==
    IF i > Len(details) THEN [threw |-> FALSE, fields |-> fields]
    ELSE LET d == details[i]
             fieldPath == Join(d.path, ".")
             fields1 == EnsureKey(fields, fieldPath)
             def == getSchemaField(schema, d.path)
             c == ChooseMessage(d, def)
             entry == [code |-> d.type, message |-> StripFieldPath(c.msg, fieldPath)]
         IN IF fieldPath \in fieldsWithAny
            THEN TranslateFrom(details, schema, i + 1, fields1, fieldsWithAny)
            ELSE IF fieldPath \notin DOMAIN fields1
                 THEN [threw |-> TRUE, fields |-> fields1]
            ELSE TranslateFrom(details, schema, i + 1,
                               [fields1 EXCEPT ![fieldPath] = Append(@, entry)],
                               IF c.any THEN fieldsWithAny \cup {fieldPath} ELSE fieldsWithAny)

\* how handleJoiException ends: it throws err
Throw(err) == [throws |-> TRUE, err |-> err]
handleJoiException(e, schema) ==
    IF e.k \in {"falsy", "error"} \/ (e.k = "validation" /\ Len(e.details) = 0)
    THEN Throw(GenericError)
    \* line 141: d.path.join on a character of the string
    ELSE IF e.k = "malformed" THEN Throw(RawTypeError)
    \* line 131: undefined === 0 is false; line 139: i < undefined, no iteration
    ELSE IF e.k = "lengthless" THEN Throw(StructuredError(<<>>))
    ELSE LET t == TranslateFrom(e.details, schema, 1, <<>>, {})
         IN IF t.threw THEN Throw(RawTypeError) ELSE Throw(StructuredError(t.fields))

----------------------------------------------------------------------------
(* The registry: JoiPlugin.#schemas, a plain object. A read of a key that   *)
(* is not an own property falls through to Object.prototype.                *)

\* the identifiers that can become own properties of #schemas
OwnIds == {"x", "app.js:3:7"}
\* the call site that new Error().stack yields for the caller of schema()
CallSite == "app.js:3:7"
\* how many schema instances the factories may create
MaxInstances == 2

Ref(k, ref) == [k |-> k, ref |-> ref]
\* this.#schemas[id]
RegistryGet(id) ==
    IF id \in OwnIds /\ schemas[id] # 0 THEN Ref("instance", schemas[id])
    ELSE IF id = "__proto__" THEN Ref("proto", 0)
    ELSE IF id \in {"constructor", "toString", "valueOf", "hasOwnProperty", "isPrototypeOf",
                     "propertyIsEnumerable", "toLocaleString", "__defineGetter__",
                     "__defineSetter__", "__lookupGetter__", "__lookupSetter__"}
         THEN Ref("function", 0)
    ELSE Ref("undefined", 0)
\* a value is truthy
Truthy(r) == r.k \in {"instance", "proto", "function"}
\* typeof r === 'object' && r
IsObject(r) == r.k \in {"instance", "proto"}

\* the arguments schema() is given: a factory function (def: what it builds;
\* type "none": it returns a falsy value) or a value used directly (ref: a schema
\* instance the caller holds; 0: a falsy value)
NoNode == Node("none", <<>>, NoMessages)
Factory(def) == [k |-> "fn", def |-> def, ref |-> 0]
Direct(ref) == [k |-> "value", def |-> NoNode, ref |-> ref]

\* r.__arrayDefs, set only when the list is not empty
WithArrayDefs(def) ==
    LET arrayDefs == getSchemaArrays(def, <<>>)
    IN [def |-> def, arrayDefs |-> [has |-> Len(arrayDefs) > 0, list |-> arrayDefs]]

\* a schema the caller built with Joi and did not pass through schema()
Unregistered(def) == [def |-> def, arrayDefs |-> [has |-> FALSE, list |-> <<>>]]

NoSchemaCall == [n |-> 0, id |-> "", hit |-> FALSE, ret |-> Ref("undefined", 0),
                 invoked |-> FALSE]

\* line 75: if (this.#schemas[id]) return this.#schemas[id]
CacheHit(got) == Truthy(got)

\* schema(defFn, id), called from CallSite, with a value or with a factory that
\* does not call the plugin while it runs (SchemaEnter and SchemaLeave are the call
\* whose factory does)
SchemaCall(defFn, idArg) ==
    LET id == IF idArg = "" THEN CallSite ELSE idArg
        got == RegistryGet(id)
        returned(ret, invoked) ==
            lastSchema' = [n |-> 1 - lastSchema.n, id |-> id, hit |-> Truthy(got),
                           ret |-> ret, invoked |-> invoked]
    IN /\ UNCHANGED <<objs, opts, calls, stack>>
       /\ IF CacheHit(got)
          THEN returned(got, FALSE) /\ UNCHANGED <<schemas, heap>>
          ELSE IF defFn.k = "fn"
               THEN IF defFn.def.type = "none"
                    THEN returned(Ref("false", 0), TRUE) /\ UNCHANGED <<schemas, heap>>
                    ELSE /\ Len(heap) < MaxInstances
                         /\ heap' = Append(heap, WithArrayDefs(defFn.def))
                         /\ schemas' = [schemas EXCEPT ![id] = Len(heap) + 1]
                         /\ returned(Ref("instance", Len(heap) + 1), TRUE)
               ELSE IF defFn.ref = 0
                    THEN returned(Ref("false", 0), FALSE) /\ UNCHANGED <<schemas, heap>>
                    ELSE /\ defFn.ref \in 1..Len(heap)
                         /\ heap' = [heap EXCEPT ![defFn.ref] = WithArrayDefs(@.def)]
                         /\ schemas' = [schemas EXCEPT ![id] = defFn.ref]
                         /\ returned(Ref("instance", defFn.ref), FALSE)

\* how deep the factories call schema() from inside a factory
MaxNesting == 1

\* schema(defFn, id) with a factory that calls the plugin while it runs: lines 65-76,
\* up to the call of defFn. The calls of schema() and validate() that follow, until
\* SchemaLeave, are made by the factory.
SchemaEnter(def, idArg) ==
    LET id == IF idArg = "" THEN CallSite ELSE idArg
    IN /\ ~CacheHit(RegistryGet(id))
       /\ Len(stack) < MaxNesting
       /\ stack' = Append(stack, [id |-> id, def |-> def])
       /\ UNCHANGED <<schemas, heap, lastSchema, objs, opts, calls>>

\* the innermost running factory returns what it built: lines 76-81. Line 80 writes
\* whatever the registry holds by now.
SchemaLeave ==
    /\ stack # <<>>
    /\ LET top == stack[Len(stack)]
           returned(ret) ==
               lastSchema' = [n |-> 1 - lastSchema.n, id |-> top.id, hit |-> FALSE,
                              ret |-> ret, invoked |-> TRUE]
       IN /\ stack' = SubSeq(stack, 1, Len(stack) - 1)
          /\ UNCHANGED <<objs, opts, calls>>
          /\ IF top.def.type = "none"
             THEN returned(Ref("false", 0)) /\ UNCHANGED <<schemas, heap>>
             ELSE /\ Len(heap) < MaxInstances
                  /\ heap' = Append(heap, WithArrayDefs(top.def))
                  /\ schemas' = [schemas EXCEPT ![top.id] = Len(heap) + 1]
                  /\ returned(Ref("instance", Len(heap) + 1))

----------------------------------------------------------------------------
(* validate(schema, input = {}, opt = {}): the part before the await, and   *)
(* the part that runs when the engine's promise settles.                    *)

InputRefs == {"i1", "i2"}
OptRefs == {"o1", "o2"}
CallIds == {"c1", "c2"}

NoValue == [t |-> "none"]
NoAnswer == [k |-> "none", res |-> NoValue, same |-> FALSE, e |-> FalsyException]
NoOutcome == [k |-> "none", obj |-> "none", value |-> NoValue, err |-> GenericError]
IdleCall == [pc |-> "idle", schemaArg |-> [k |-> "none", id |-> "", ref |-> 0],
             schema |-> Ref("none", 0), inRef |-> "none", optRef |-> "none",
             clean0 |-> "absent", isClean |-> TRUE, input0 |-> NoValue,
             local |-> [fresh |-> FALSE, holds |-> "none", value |-> NoValue],
             handed |-> NoValue,
             before |-> NoValue, answer |-> NoAnswer, outcome |-> NoOutcome]

\* the schema argument: a string identifier, a schema instance, or something else
ById(id) == [k |-> "id", id |-> id, ref |-> 0]
ByInstance(ref) == [k |-> "instance", id |-> "", ref |-> ref]
ByOther(k) == [k |-> k, id |-> "", ref |-> 0]

SetupError == [code |-> "DATA.VALIDATION", message |-> "Invalid or missing schema definition",
               hasFields |-> FALSE, fields |-> <<>>]
Rejected(err) == [k |-> "rejected", obj |-> "none", value |-> NoValue, err |-> err]
Resolved(obj, value) == [k |-> "resolved", obj |-> obj, value |-> value, err |-> GenericError]
\* the catch block: handleJoiException(e, schema) is called and nothing follows it, so
\* the promise rejects with what it throws and resolves with undefined if it returns
Caught(e, schema) ==
    LET h == handleJoiException(e, schema)
    IN IF h.throws THEN Rejected(h.err) ELSE Resolved("none", Undef)

\* The array that line 215 makes holds the caller's object itself: a call that
\* waits with such an array sees, as its element, what the object is now.
Rewrap(cs, os) ==
    [d \in CallIds |->
        IF cs[d].pc = "awaiting" /\ cs[d].local.holds # "none"
        THEN [cs[d] EXCEPT !.local.value = Arr(<<os[cs[d].local.holds]>>)]
        ELSE cs[d]]

\* lines 93-105: up to the call of schema.validateAsync
ValidateCall(c, schemaArg, inRef, optRef) ==
    LET schema == IF schemaArg.k = "id" THEN RegistryGet(schemaArg.id)
                  ELSE Ref(schemaArg.k, schemaArg.ref)
        input0 == IF inRef = "omitted" THEN EmptyObj ELSE objs[inRef]
        begun == [calls[c] EXCEPT !.schemaArg = schemaArg, !.schema = schema, !.inRef = inRef,
                                  !.optRef = optRef, !.clean0 = opts[optRef].clean,
                                  !.input0 = input0]
    IN /\ calls[c].pc = "idle"
       /\ schemaArg.k = "instance" => schemaArg.ref \in 1..Len(heap)
       /\ UNCHANGED <<schemas, heap, lastSchema, stack>>
       /\ IF ~IsObject(schema)
          THEN /\ calls' = [calls EXCEPT ![c] = [begun EXCEPT !.pc = "done",
                                                              !.outcome = Rejected(SetupError)]]
               /\ UNCHANGED <<objs, opts>>
          ELSE /\ opts' = [opts EXCEPT ![optRef].clean = "absent"]
               /\ IF schema.k = "proto"
                  \* Object.prototype has no __arrayDefs and no validateAsync: the call
                  \* throws a TypeError inside the try, which handleJoiException gets
                  THEN /\ calls' = [calls EXCEPT ![c] =
                                      [begun EXCEPT !.pc = "done",
                                                    !.isClean = opts[optRef].clean # "false",
                                                    !.outcome = Caught(PlainException, NoNode)]]
                       /\ UNCHANGED objs
                  ELSE LET inst == heap[schema.ref]
                           conv == IF inst.arrayDefs.has
                                   THEN convertInputArrays(inst.arrayDefs.list, input0)
                                   ELSE [fresh |-> FALSE, value |-> input0, raised |-> FALSE]
                           fresh == conv.fresh \/ inRef = "omitted"
                           \* the new array has the caller's object as its element
                           holds == IF conv.fresh /\ inRef # "omitted" /\ HasProps(input0)
                                    THEN inRef ELSE "none"
                           os == IF fresh THEN objs ELSE [objs EXCEPT ![inRef] = conv.value]
                       IN /\ objs' = os
                          /\ calls' = Rewrap([calls EXCEPT ![c] =
                                         \* an exception out of convertInputArrays is inside the
                                         \* try of validate: the engine is not called
                                         IF conv.raised
                                         THEN [begun EXCEPT !.pc = "done",
                                                            !.isClean = opts[optRef].clean # "false",
                                                            !.outcome = Caught(PlainException, inst.def)]
                                         ELSE
                                         [begun EXCEPT !.pc = "awaiting",
                                                       !.isClean = opts[optRef].clean # "false",
                                                       !.local = [fresh |-> fresh,
                                                                  holds |-> holds,
                                                                  value |-> IF fresh THEN conv.value
                                                                            ELSE NoValue],
                                                       !.handed = conv.value]], os)

\* the own enumerable properties of res || {}: those of an object or array, the
\* characters of a string under their indexes, none for any other value
ResultProps(res) ==
    IF HasProps(res) THEN res.f
    ELSE IF res.t = "string"
         THEN [k \in {IndexKey(i - 1) : i \in 1..Len(res.s)} |->
                 LET i == CHOOSE j \in 1..Len(res.s) : IndexKey(j - 1) = k IN Str(<<res.s[i]>>)]
    ELSE <<>>
\* Object.keys(res || {})
ResultKeys(res) == DOMAIN ResultProps(res)
\* the keys k with typeof res[k] !== 'undefined'
DefinedKeys(res) == {k \in ResultKeys(res) : ResultProps(res)[k] # Undef}
\* lines 108-110
StripUndefined(res) ==
    IF HasProps(res) THEN [res EXCEPT !.f = [k \in DefinedKeys(res) |-> res.f[k]]] ELSE res
\* lines 113-118, on an input that has properties
MergeDefined(input, res) ==
    [input EXCEPT !.f = [k \in (DOMAIN input.f) \cup DefinedKeys(res) |->
                           IF k \in DefinedKeys(res) THEN ResultProps(res)[k] ELSE input.f[k]]]

\* the engine's answer: a result that is a new value, a result that is the very
\* object it was handed (same), or an exception
EngineOk(res) == [k |-> "ok", res |-> res, same |-> FALSE, e |-> FalsyException]
EngineSame(res) == [k |-> "ok", res |-> res, same |-> TRUE, e |-> FalsyException]
EngineFail(e) == [k |-> "fail", res |-> NoValue, same |-> FALSE, e |-> e]

\* the local variable input of call c as it is now
CurrentInput(c) == IF calls[c].local.fresh THEN calls[c].local.value ELSE objs[calls[c].inRef]

\* lines 105-122: after the await
EngineSettle(c, answer) ==
    LET cl == calls[c]
        inst == heap[cl.schema.ref]
        input == CurrentInput(c)
        \* which object a returned res is: the engine's own, or the one it was handed
        resObj == IF ~answer.same THEN "res" ELSE IF cl.local.fresh THEN "fresh" ELSE "input"
        finish(outcome, os) ==
            /\ calls' = Rewrap([calls EXCEPT ![c] = [cl EXCEPT !.pc = "done", !.answer = answer,
                                                               !.before = input,
                                                               !.outcome = outcome]], os)
            /\ objs' = os
    IN /\ cl.pc = "awaiting"
       \* the continuation of an await runs when no synchronous code is running
       /\ stack = <<>>
       /\ UNCHANGED <<schemas, heap, lastSchema, opts, stack>>
       /\ IF answer.k = "fail"
          THEN finish(Caught(answer.e, inst.def), objs)
          ELSE IF cl.isClean
               \* line 109 deletes on res itself, which is the caller's object when the
               \* engine returned the object it was handed
               THEN LET stripped == StripUndefined(answer.res)
                    IN finish(Resolved(resObj, stripped),
                              IF answer.same /\ ~cl.local.fresh
                              THEN [objs EXCEPT ![cl.inRef] = stripped] ELSE objs)
          ELSE IF DefinedKeys(answer.res) # {} /\ ~HasProps(input)
               \* input[key] = val throws a TypeError in strict mode; it is caught
               THEN finish(Caught(PlainException, inst.def), objs)
          ELSE LET merged == IF DefinedKeys(answer.res) = {} THEN input
                             ELSE MergeDefined(input, answer.res)
               IN finish(Resolved(IF cl.local.fresh THEN "fresh" ELSE "input", merged),
                         IF cl.local.fresh THEN objs ELSE [objs EXCEPT ![cl.inRef] = merged])

----------------------------------------------------------------------------
(* The engine behind schema.validateAsync is outside the plugin. Its answer *)
(* is a choice: it may fail with any exception, and it may succeed with a   *)
(* result of the schema's root type built from the input it was handed.     *)

SchemaKeyIds(def) == {def.keys[i].id : i \in 1..Len(def.keys)}
\* a value as a converting rule (uppercase) leaves it
Converted(v) == IF v.t = "string" THEN Str([i \in 1..Len(v.s) |-> UpperOf(v.s[i])]) ELSE v
\* the default of a declared key that the input lacks
StrDefault == Str(<<"d">>)
\* the text of an object without keys, which the engine parses for an object schema
StrJson == Str(<<"{", "}">>)
\* the new values the engine can answer with for what it reads as its input
OkResults(def, given) ==
    IF def.type = "object" /\ given.t = "object"
    THEN LET known == (DOMAIN given.f) \cap SchemaKeyIds(def)
             stripped == Obj([k \in known |-> given.f[k]])
             \* the engine may carry a declared key with the value undefined
             padded == Obj([k \in SchemaKeyIds(def) |->
                              IF k \in known THEN given.f[k] ELSE Undef])
             \* converted values, and defaults under the declared keys it lacks
             converted == Obj([k \in SchemaKeyIds(def) |->
                                 IF k \in known /\ given.f[k] # Undef
                                 THEN Converted(given.f[k]) ELSE StrDefault])
         IN {stripped, padded, converted, given}
    ELSE IF def.type = "object" /\ given = StrJson
         THEN {Obj([k \in SchemaKeyIds(def) |-> StrDefault])}
    ELSE IF def.type = "array" /\ given.t = "array" THEN {given}
    \* an array schema that takes a single value for a list of one
    ELSE IF def.type = "array" /\ given.t = "object" THEN {Arr(<<given>>)}
    ELSE IF def.type = "string" /\ given.t = "string" THEN {given, Converted(given)}
    ELSE {}

\* the engine reads its input when it is called or, by the reference it holds,
\* later: every answer it can give to call c
OkAnswersFor(c) ==
    LET def == heap[calls[c].schema.ref].def
        live == CurrentInput(c)
    IN {EngineOk(res) : res \in OkResults(def, calls[c].handed) \cup OkResults(def, live)}
       \cup (IF OkResults(def, live) # {} /\ HasProps(live) THEN {EngineSame(live)} ELSE {})

Settle(c, answers) ==
    \E answer \in answers :
        /\ calls[c].pc = "awaiting"
        /\ answer.k = "ok" => answer \in OkAnswersFor(c)
        /\ EngineSettle(c, answer)

\* calls are named in the order they are made
NextCall(c) == c = "c1" \/ calls["c1"].pc # "idle"

\* every answer with a result the engine can give to some call that is waiting
OkAnswers == UNION {IF calls[c].pc = "awaiting" THEN OkAnswersFor(c) ELSE {} : c \in CallIds}

----------------------------------------------------------------------------
(* Inputs of the specifications *)

KA == <<"a">>
KB == <<"b">>
KC == <<"c">>
StrX == Str(<<"x">>)
StrY == Str(<<"y">>)
StrList == Str(<<"a", ",", " ", "b", ",", "c">>)

\* the custom messages of a node: tag names the node, the last letter the kind
Rendered(tag, kind) == <<tag, " ", IF kind = "any" THEN "y" ELSE "x">>
Msgs(tag, kinds) == [k \in kinds |-> Rendered(tag, k)]
Leaf(type, tag, kinds) == Node(type, <<>>, Msgs(tag, kinds))

\* Joi.object({a: Joi.string().messages({any: ...}), b: Joi.array()})
DefObject == Node("object", <<Entry(KA, Leaf("string", "p", {"any"})),
                              Entry(KB, Leaf("array", "q", {}))>>, NoMessages)
\* Joi.array()
DefArray == Node("array", <<>>, NoMessages)
\* Joi.string()
DefString == Node("string", <<>>, NoMessages)

InitRegistry ==
    /\ schemas = [id \in OwnIds |-> 0]
    /\ heap = <<>>
    /\ lastSchema = NoSchemaCall
    /\ calls = [c \in CallIds |-> IdleCall]
    /\ stack = <<>>

----------------------------------------------------------------------------
(* Spec: the registry under every kind of schema() and validate() call *)

LifeInput == Obj((KA :> StrX) @@ (KB :> StrList))
LifeDetail == [path |-> <<KA>>, type |-> "string.min", message |-> <<"a", " ", "d">>]

Init ==
    /\ InitRegistry
    /\ objs = [r \in InputRefs |-> LifeInput]
    /\ opts = [r \in OptRefs |-> [clean |-> "absent"]]

Register ==
    \E defFn \in {Factory(DefObject), Factory(DefArray), Factory(NoNode), Direct(0), Direct(1)},
       idArg \in {"x", "", "__proto__", "constructor"} :
        SchemaCall(defFn, idArg)

Validate ==
    \E c \in CallIds,
       schemaArg \in {ById("x"), ById("y"), ById("__proto__"), ById("constructor"),
                      ByInstance(1), ByOther("null"), ByOther("undefined"), ByOther("number")} :
        NextCall(c) /\ ValidateCall(c, schemaArg, "i1", "o1")

Answer ==
    \E c \in CallIds :
        Settle(c, OkAnswers \cup {EngineFail(ValidationException(<<LifeDetail>>))})

\* a schema() call whose factory calls the plugin, and the return of that factory
Enter == \E def \in {DefObject, NoNode}, idArg \in {"x", ""} : SchemaEnter(def, idArg)
Leave == SchemaLeave

Next == Register \/ Enter \/ Leave \/ Validate \/ Answer

Spec == Init /\ [][Next]_vars

----------------------------------------------------------------------------
(* SpecValidate: two validate() calls against one registered schema, with   *)
(* shared and separate input and option objects                             *)

ValidateInputs ==
    {Obj((KA :> StrX) @@ (KC :> StrY)), Obj((KA :> StrX) @@ (KB :> StrList)), Arr(<<StrX>>),
     StrX, StrJson, Obj((KA :> StrX) @@ (KC :> Undef))}
CleanValues == {"absent", "false", "zero"}
\* the detail of an input key the schema does not allow, the key being valueOf
UnknownKeyDetail == [path |-> <<ValueOfKey>>, type |-> "object.unknown",
                     message |-> ValueOfKey \o <<" ", "d">>]
ValidateExceptions ==
    {FalsyException, PlainException, ValidationException(<<>>),
     ValidationException(<<LifeDetail>>),
     ValidationException(<<UnknownKeyDetail>>), MalformedException, LengthlessException}

InitValidate ==
    /\ InitRegistry
    /\ \E v \in ValidateInputs : objs = [r \in InputRefs |-> v]
    /\ \E cv \in CleanValues : opts = [r \in OptRefs |-> [clean |-> cv]]

\* the caller registers one schema
RegisterOne ==
    heap = <<>> /\ \E def \in {DefObject, DefArray, DefString} : SchemaCall(Factory(def), "x")

\* or builds an array schema with Joi and keeps it to itself
BuildOne ==
    /\ heap = <<>>
    /\ heap' = <<Unregistered(DefArray)>>
    /\ UNCHANGED <<schemas, lastSchema, objs, opts, calls, stack>>

ValidateTwo ==
    \E c \in CallIds, inRef \in InputRefs \cup {"omitted"}, optRef \in OptRefs :
        /\ NextCall(c)
        /\ ValidateCall(c, IF heap # <<>> /\ schemas["x"] = 0 THEN ByInstance(1) ELSE ById("x"),
                        inRef, optRef)

AnswerAny ==
    \E c \in CallIds : Settle(c, OkAnswers \cup {EngineFail(e) : e \in ValidateExceptions})

NextValidate == RegisterOne \/ BuildOne \/ ValidateTwo \/ AnswerAny

SpecValidate == InitValidate /\ [][NextValidate]_vars

----------------------------------------------------------------------------
(* SpecCoerce: schemas of every shape over two keys and two levels,         *)
(* registered and then used on inputs of every shape                        *)

Absent == [t |-> "absent"]
\* the object with the given values under a and b, a key left out when Absent
ObjectOf(av, bv) ==
    Obj([k \in {k \in {KA, KB} : (IF k = KA THEN av ELSE bv) # Absent} |->
           IF k = KA THEN av ELSE bv])
CoerceLeaves == {Null, StrX, StrList, Str(<<>>), Arr(<<StrX>>)}
CoerceInner == {ObjectOf(av, bv) : av, bv \in CoerceLeaves \cup {Absent}}
CoerceInputs ==
    {ObjectOf(av, bv) : av \in CoerceLeaves \cup CoerceInner \cup {Absent},
                        bv \in CoerceLeaves \cup {Absent}}
    \cup {Null, StrList, Arr(<<StrX>>), Num(5)}

NoChild == Node("absent", <<>>, NoMessages)
\* Joi.object({a: ..., b: ...}), a key left out when NoChild
ObjectNode(an, bn) ==
    Node("object",
         (IF an = NoChild THEN <<>> ELSE <<Entry(KA, an)>>)
         \o (IF bn = NoChild THEN <<>> ELSE <<Entry(KB, bn)>>),
         NoMessages)
ShapeLeaves == {Node("string", <<>>, NoMessages), Node("array", <<>>, NoMessages)}
ShapeInner == {ObjectNode(an, bn) : an, bn \in ShapeLeaves \cup {NoChild}}
CoerceSchemas ==
    {ObjectNode(an, bn) : an \in ShapeLeaves \cup ShapeInner \cup {NoChild},
                          bn \in ShapeLeaves \cup {NoChild}}
    \cup ShapeLeaves

InitCoerce ==
    /\ InitRegistry
    /\ \E v \in CoerceInputs : objs = [r \in InputRefs |-> v]
    /\ opts = [r \in OptRefs |-> [clean |-> "absent"]]

\* the caller registers its schema once
RegisterShape == heap = <<>> /\ \E def \in CoerceSchemas : SchemaCall(Factory(def), "x")
ValidateShape == ValidateCall("c1", ById("x"), "i1", "o1")
NextCoerce == RegisterShape \/ ValidateShape
SpecCoerce == InitCoerce /\ [][NextCoerce]_vars

----------------------------------------------------------------------------
(* SpecFrame: schemas and inputs three levels deep, the inputs with missing, *)
(* null and scalar values where the schema has objects                       *)

FrameInner2 == {ObjectOf(av, bv) : av \in {StrList, Null, Num(5), Absent}, bv \in {StrX, Absent}}
FrameInner1 ==
    {ObjectOf(av, bv) : av \in FrameInner2 \cup {Null, StrX, Absent},
                        bv \in {StrList, ObjectOf(StrList, StrX), Absent}}
FrameInputs ==
    {ObjectOf(av, bv) : av \in FrameInner1 \cup {Null, StrX, Absent},
                        bv \in {StrList, ObjectOf(StrList, StrX), Absent}}
    \cup {Null, StrList, Num(5), Arr(<<StrX>>)}

ArrayLeaf == Node("array", <<>>, NoMessages)
FrameShapes1 == {ObjectNode(an, bn) : an \in ShapeInner \cup {ArrayLeaf}, bn \in {ArrayLeaf, NoChild}}
FrameSchemas ==
    {ObjectNode(an, bn) : an \in FrameShapes1 \cup {ArrayLeaf}, bn \in {ArrayLeaf, NoChild}}
    \cup ShapeLeaves

InitFrame ==
    /\ InitRegistry
    /\ \E v \in FrameInputs : objs = [r \in InputRefs |-> v]
    /\ opts = [r \in OptRefs |-> [clean |-> "absent"]]

RegisterDeep == heap = <<>> /\ \E def \in FrameSchemas : SchemaCall(Factory(def), "x")
ValidateDeep == ValidateCall("c1", ById("x"), "i1", "o1")
NextFrame == RegisterDeep \/ ValidateDeep
SpecFrame == InitFrame /\ [][NextFrame]_vars

----------------------------------------------------------------------------
(* SpecTranslate: schemas with every mix of custom messages on a top-level  *)
(* field and on a nested field of the same name, and every list of details  *)

MaxDetails == 2
MessageKinds == SUBSET {"string.min", "any"}
TranslateSchemas ==
    {ObjectNode(an, bn) :
        an \in {NoChild} \cup {Leaf("string", "p", ks) : ks \in MessageKinds}
               \cup {ObjectNode(NoChild, Leaf("string", "r", ks)) : ks \in MessageKinds},
        bn \in {NoChild} \cup {Leaf("string", "q", ks) : ks \in MessageKinds}}

DetailPaths == {<<>>, <<KA>>, <<KB>>, <<KA, KB>>}
DetailKinds == {"string.min", "string.max"}
\* the engine's message: one that begins with the label (the field path, or "v"
\* for the root value), one that does not
EngineMessages(path) ==
    {(IF path = <<>> THEN <<"v">> ELSE Join(path, ".")) \o <<" ", "d">>, <<"b", "a", "d">>}
Details ==
    UNION {{[path |-> path, type |-> type, message |-> message] :
              type \in DetailKinds, message \in EngineMessages(path)} : path \in DetailPaths}
    \cup {UnknownKeyDetail}
TranslateExceptions ==
    {FalsyException, PlainException, MalformedException, LengthlessException}
    \cup {ValidationException(ds) : ds \in UNION {[1..n -> Details] : n \in 0..MaxDetails}}

InitTranslate == Init
RegisterMessages == heap = <<>> /\ \E def \in TranslateSchemas : SchemaCall(Factory(def), "x")
ValidateOnce == ValidateCall("c1", ById("x"), "i1", "o1")
Reject == Settle("c1", {EngineFail(e) : e \in TranslateExceptions})
NextTranslate == RegisterMessages \/ ValidateOnce \/ Reject
SpecTranslate == InitTranslate /\ [][NextTranslate]_vars

----------------------------------------------------------------------------
(* Claims about the registry (Spec) *)

Begun(c) == calls[c].pc # "idle"
Done(c) == calls[c].pc = "done"

\* C1: once schema() has stored a schema under an identifier, the entry is never
\* replaced or removed and the stored instance is not rebuilt; every later
\* schema(g, id) returns that instance without invoking g and without creating
\* an instance; every later validate(id, ...) resolves to that instance.
C1_RegisteredForGood ==
    [][\A id \in OwnIds :
          schemas[id] # 0 =>
             /\ schemas'[id] = schemas[id]
             /\ Len(heap') >= Len(heap)
             /\ heap'[schemas[id]] = heap[schemas[id]]
             /\ (lastSchema'.n # lastSchema.n /\ lastSchema'.id = id) =>
                   /\ lastSchema'.ret = Ref("instance", schemas[id])
                   /\ ~lastSchema'.invoked
                   /\ heap' = heap
             /\ \A c \in CallIds :
                   (~Begun(c) /\ calls'[c].pc # "idle" /\ calls'[c].schemaArg = ById(id)) =>
                      calls'[c].schema = Ref("instance", schemas[id])
      ]_vars

\* the schema reference of call c did not resolve to a schema: a string that names
\* no registered schema, or a value that is no object
Unresolved(c) ==
    \/ calls[c].schemaArg.k = "id" /\ calls[c].schema.k # "instance"
    \/ calls[c].schemaArg.k \in {"null", "undefined", "number"}

\* C4: a validate whose schema reference does not resolve rejects with the setup
\* error, and the engine and the array coercion have not run for it.
C4_UnresolvedIsSetupError ==
    \A c \in CallIds :
        (Begun(c) /\ Unresolved(c)) =>
            /\ Done(c)
            /\ calls[c].outcome = Rejected(SetupError)
            /\ calls[c].handed = NoValue

----------------------------------------------------------------------------
(* Claims about validate (SpecValidate) *)

EngineOkFor(c) == Done(c) /\ calls[c].answer.k = "ok" /\ HasProps(calls[c].answer.res)

\* the value is `base` with every defined key of res set to res's value
MergedOnto(value, base, res) ==
    /\ HasProps(value)
    /\ DOMAIN value.f = (DOMAIN base.f) \cup {k \in DOMAIN res.f : res.f[k] # Undef}
    /\ \A k \in DOMAIN value.f :
          value.f[k] = IF k \in DOMAIN res.f /\ res.f[k] # Undef THEN res.f[k] ELSE base.f[k]

\* the clean result: res without its undefined-valued keys
CleanOf(value, res) ==
    /\ value.t = res.t
    /\ DOMAIN value.f = {k \in DOMAIN res.f : res.f[k] # Undef}
    /\ \A k \in DOMAIN value.f : value.f[k] = res.f[k] /\ value.f[k] # Undef

\* C2: when the engine succeeds with a result object R, the call resolves: with
\* clean not false, with R without its undefined-valued keys; with clean false,
\* with the caller's own input object, holding R's defined keys over the values it
\* had when the engine answered.
C2_AsStated ==
    \A c \in CallIds :
        EngineOkFor(c) =>
            /\ calls[c].outcome.k = "resolved"
            /\ IF calls[c].clean0 # "false"
               THEN CleanOf(calls[c].outcome.value, calls[c].answer.res)
               ELSE /\ (calls[c].inRef \in InputRefs /\ HasProps(calls[c].input0)) =>
                          calls[c].outcome.obj = "input"
                    /\ MergedOnto(calls[c].outcome.value, calls[c].before, calls[c].answer.res)

EngineFailedFor(c) == Done(c) /\ calls[c].answer.k = "fail"
HasDetails(e) == e.k = "validation" /\ Len(e.details) > 0

\* C3: after an engine failure validate rejects with DATA.INVALID: with a non-empty
\* fields map when the exception has details, and with the generic message and
\* no fields map otherwise. It never resolves.
C3_FailureIsTranslated ==
    \A c \in CallIds :
        EngineFailedFor(c) =>
            /\ calls[c].outcome.k = "rejected"
            /\ calls[c].outcome.err.code = "DATA.INVALID"
            /\ IF HasDetails(calls[c].answer.e) \/ calls[c].answer.e = MalformedException
               THEN /\ calls[c].outcome.err.hasFields
                    /\ calls[c].outcome.err.message = "Request contains errors"
                    /\ DOMAIN calls[c].outcome.err.fields # {}
               ELSE /\ ~calls[c].outcome.err.hasFields
                    /\ calls[c].outcome.err.message = "Please provide valid data"

\* C9: two validate calls with the same schema, the same options object and equal
\* input apply the same clean-or-merge policy, and when the engine answers both
\* alike they end alike.
C9_SameCallSameOutcome ==
    \A c, d \in CallIds :
        (/\ Begun(c) /\ Begun(d)
         /\ calls[c].schema = calls[d].schema
         /\ calls[c].optRef = calls[d].optRef
         /\ calls[c].input0 = calls[d].input0) =>
            /\ calls[c].isClean = calls[d].isClean
            /\ (Done(c) /\ Done(d) /\ calls[c].answer = calls[d].answer) =>
                  /\ calls[c].outcome.k = calls[d].outcome.k
                  /\ calls[c].outcome.value = calls[d].outcome.value
                  /\ calls[c].outcome.err = calls[d].outcome.err

----------------------------------------------------------------------------
(* Claims about array coercion (SpecCoerce) *)

RECURSIVE ValueAtPath(_, _)
\* the value an input holds at a path of keys; undefined where the path leaves it
ValueAtPath(v, segs) ==
    IF segs = <<>> THEN v
    ELSE IF HasProps(v) THEN ValueAtPath(Get(v, segs[1]), Tail(segs))
    ELSE Undef

RECURSIVE ArrayFieldAt(_, _)
\* the node at the path is array-typed and every node above it is object-typed
ArrayFieldAt(node, segs) ==
    IF segs = <<>> THEN node.type = "array"
    ELSE /\ node.type = "object"
         /\ HasKey(node, segs[1])
         /\ ArrayFieldAt(ByKeyGet(node, segs[1]).schema, Tail(segs))

KeyPaths == UNION {[1..n -> {KA, KB}] : n \in 0..2}
ArrayPaths(def) == {segs \in KeyPaths : ArrayFieldAt(def, segs)}
Prefixes(segs) == {SubSeq(segs, 1, n) : n \in 1..(Len(segs) - 1)}
IntermediatesAreObjects(v, segs) ==
    /\ HasProps(v)
    /\ \A pre \in Prefixes(segs) : HasProps(ValueAtPath(v, pre))

ListABC == Arr(<<Str(<<"a">>), Str(<<"b">>), Str(<<"c">>)>>)
\* what the claim says the engine is handed for the value v of an array field
CoercedValue(v) ==
    IF v = Undef \/ IsArray(v) THEN v
    ELSE IF v.t = "string" /\ Contains(v.s, ",")
         THEN Arr([i \in 1..Len(Split(v.s, ",")) |-> Str(Trim(Split(v.s, ",")[i]))])
    ELSE Arr(<<v>>)

\* C5: the metadata of a registered schema is the list of the dotted paths of its
\* array-typed nodes under object-typed nodes ("" for an array-typed root), each
\* once; and the input handed to the engine holds, at each such field whose
\* intermediate segments are objects in the input, the value unchanged if it was
\* undefined or an array, the trimmed comma-separated pieces if it was a string with
\* a comma, and a one-element list of it otherwise.
C5_ArrayFieldsCoerced ==
    /\ \A i \in 1..Len(heap) :
          LET meta == heap[i].arrayDefs IN
          /\ {meta.list[j] : j \in 1..Len(meta.list)}
                = {Join(segs, ".") : segs \in ArrayPaths(heap[i].def)}
          /\ Len(meta.list) = Cardinality(ArrayPaths(heap[i].def))
          /\ meta.has <=> ArrayPaths(heap[i].def) # {}
    /\ \A c \in CallIds :
          calls[c].pc = "awaiting" =>
             \A segs \in ArrayPaths(heap[calls[c].schema.ref].def) \ {<<>>} :
                IntermediatesAreObjects(calls[c].input0, segs) =>
                   /\ ValueAtPath(calls[c].handed, segs)
                         = CoercedValue(ValueAtPath(calls[c].input0, segs))
                   /\ ValueAtPath(calls[c].input0, segs) = StrList =>
                         ValueAtPath(calls[c].handed, segs) = ListABC
                   /\ ValueAtPath(calls[c].input0, segs) = StrX =>
                         ValueAtPath(calls[c].handed, segs) = Arr(<<StrX>>)

\* C5's case: the nested array field a.b held "a, b,c" and the engine got the three
\* pieces, while the top-level array field b held a string without a comma
C5_Witness ==
    /\ calls["c1"].pc = "awaiting"
    /\ ArrayPaths(heap[calls["c1"].schema.ref].def) = {<<KA, KB>>, <<KB>>}
    /\ ValueAtPath(calls["c1"].input0, <<KA, KB>>) = StrList
    /\ ValueAtPath(calls["c1"].handed, <<KA, KB>>) = ListABC
    /\ ValueAtPath(calls["c1"].input0, <<KB>>) = StrX
    /\ ValueAtPath(calls["c1"].handed, <<KB>>) = Arr(<<StrX>>)

----------------------------------------------------------------------------
(* Claims about the frame of array coercion (SpecFrame) *)

MaxDepth == 3
FrameKeyPaths == UNION {[1..n -> {KA, KB}] : n \in 0..MaxDepth}
FrameArrayPaths(def) == {segs \in FrameKeyPaths : ArrayFieldAt(def, segs)}
\* p is segs or a path above it
Within(p, segs) == Len(p) <= Len(segs) /\ SubSeq(segs, 1, Len(p)) = p
\* call c ran the coercion: its schema resolved to an instance with array paths
Coerced(c) ==
    /\ Begun(c) /\ calls[c].schema.k = "instance"
    /\ heap[calls[c].schema.ref].arrayDefs.has
\* an intermediate segment of the path does not hold an object or array
BrokenPath(v, segs) == HasProps(v) /\ ~IntermediatesAreObjects(v, segs)

\* C11: the coercion never raises (the call goes on to the engine); a non-object
\* input is handed on as it is, or wrapped whole for a root array; a path with an
\* intermediate segment that is missing, null or a scalar leaves that segment as
\* it was while the other paths are still coerced; and every field that no array
\* path names, lies under or passes through has the value it had, a field an array
\* path passes through keeping its type and its keys.
C11_CoercionIsFramed ==
    \A c \in CallIds :
        Coerced(c) =>
            LET paths == FrameArrayPaths(heap[calls[c].schema.ref].def)
                in == calls[c].input0
                out == calls[c].handed
            IN /\ calls[c].pc = "awaiting"
               /\ out # NoValue
               /\ IF <<>> \in paths
                  THEN out = IF IsArray(in) THEN in ELSE Arr(<<in>>)
                  ELSE /\ ~HasProps(in) => out = in
                       /\ \A segs \in paths :
                             IF BrokenPath(in, segs)
                             THEN \A pre \in Prefixes(segs) :
                                     ~HasProps(ValueAtPath(in, pre)) =>
                                        ValueAtPath(out, pre) = ValueAtPath(in, pre)
                             ELSE ValueAtPath(out, segs) = CoercedValue(ValueAtPath(in, segs))
                       /\ \A p \in FrameKeyPaths :
                             (\A segs \in paths : ~Within(segs, p)) =>
                                LET a == ValueAtPath(in, p)
                                    b == ValueAtPath(out, p)
                                IN IF \E segs \in paths : Within(p, segs)
                                   THEN /\ b.t = a.t
                                        /\ HasProps(a) => DOMAIN b.f = DOMAIN a.f
                                   ELSE b = a

\* C11's case: the path a.a.b meets null at a.a and is given up, the path b after
\* it is still coerced, and the field a.b, which no path names, keeps its string
C11_Witness ==
    /\ Coerced("c1") /\ calls["c1"].pc = "awaiting"
    /\ heap[calls["c1"].schema.ref].arrayDefs.list = <<Join(<<KA, KA, KB>>, "."), KB>>
    /\ ValueAtPath(calls["c1"].input0, <<KA, KA>>) = Null
    /\ ValueAtPath(calls["c1"].handed, <<KA, KA>>) = Null
    /\ ValueAtPath(calls["c1"].input0, <<KB>>) = StrList
    /\ ValueAtPath(calls["c1"].handed, <<KB>>) = ListABC
    /\ ValueAtPath(calls["c1"].input0, <<KA, KB>>) = StrList
    /\ ValueAtPath(calls["c1"].handed, <<KA, KB>>) = StrList

----------------------------------------------------------------------------
(* Claims about the translation of engine exceptions (SpecTranslate) *)

\* call c ended with the structured error for the details of its exception
Translated(c) == EngineFailedFor(c) /\ HasDetails(calls[c].answer.e)
DetailsOf(c) == calls[c].answer.e.details
FieldsOf(c) == calls[c].outcome.err.fields
SchemaOf(c) == heap[calls[c].schema.ref].def
PathOf(d) == Join(d.path, ".")

\* the indexes of the details with field path p, in encounter order
IndexesUpTo(ds, p, n) == {i \in 1..n : PathOf(ds[i]) = p}
RECURSIVE IndexesFrom(_, _, _)
IndexesFrom(ds, p, i) ==
    IF i > Len(ds) THEN <<>>
    ELSE (IF PathOf(ds[i]) = p THEN <<i>> ELSE <<>>) \o IndexesFrom(ds, p, i + 1)
DetailsAt(ds, p) == [j \in 1..Len(IndexesFrom(ds, p, 1)) |-> ds[IndexesFrom(ds, p, 1)[j]]]

\* C7: for every non-empty list of details the call ends with the structured
\* error; its fields map has exactly the distinct dotted paths of the details as
\* its keys, no key has an empty list, and the entries of a key carry the kinds of
\* that path's details in encounter order.
C7_FieldsKeyedByPath ==
    \A c \in CallIds :
        Translated(c) =>
            /\ calls[c].outcome.err.hasFields
            /\ DOMAIN FieldsOf(c) = {PathOf(DetailsOf(c)[i]) : i \in 1..Len(DetailsOf(c))}
            /\ \A p \in DOMAIN FieldsOf(c) :
                  /\ FieldsOf(c)[p] # <<>>
                  /\ Len(FieldsOf(c)[p]) <= Len(DetailsAt(DetailsOf(c), p))
                  /\ \A j \in 1..Len(FieldsOf(c)[p]) :
                        FieldsOf(c)[p][j].code = DetailsAt(DetailsOf(c), p)[j].type

\* the custom messages of the node that the lookup resolved for a detail
ResolvedMessages(c, d) == DefMessages(getSchemaField(SchemaOf(c), d.path))
SpecificFor(c, d) == d.type \in DOMAIN ResolvedMessages(c, d)
FallbackFor(c, d) == ~SpecificFor(c, d) /\ "any" \in DOMAIN ResolvedMessages(c, d)
\* the message the precedence rule picks for a detail
PickedFor(c, d) ==
    IF SpecificFor(c, d) THEN ResolvedMessages(c, d)[d.type]
    ELSE IF FallbackFor(c, d) THEN ResolvedMessages(c, d)["any"]
    ELSE d.message
RECURSIVE NodeAtPath(_, _)
\* the keyed child reached from the root through the path, first segment first
NodeAtPath(node, segs) ==
    IF ~HasKey(node, segs[1]) THEN NoDef
    ELSE IF Len(segs) = 1 THEN PEntry(ByKeyGet(node, segs[1]))
    ELSE NodeAtPath(ByKeyGet(node, segs[1]).schema, Tail(segs))

\* the custom messages declared on the schema node at the path of a detail
NodeMessages(c, d) ==
    IF d.path = <<>> THEN SchemaOf(c).messages ELSE DefMessages(NodeAtPath(SchemaOf(c), d.path))
NodeSpecific(c, d) == d.type \in DOMAIN NodeMessages(c, d)
NodeFallback(c, d) == ~NodeSpecific(c, d) /\ "any" \in DOMAIN NodeMessages(c, d)
\* the message the precedence rule picks for a detail on its node
NodePicked(c, d) ==
    IF NodeSpecific(c, d) THEN NodeMessages(c, d)[d.type]
    ELSE IF NodeFallback(c, d) THEN NodeMessages(c, d)["any"]
    ELSE d.message
\* how many details of one path are reported: all of them, or those up to the
\* first that used the fallback
ReportedCount(c, ds) ==
    IF \E j \in 1..Len(ds) : NodeFallback(c, ds[j])
    THEN CHOOSE j \in 1..Len(ds) :
            NodeFallback(c, ds[j]) /\ \A h \in 1..(j - 1) : ~NodeFallback(c, ds[h])
    ELSE Len(ds)

\* C6: in a structured error the message of a detail is its node's message for the
\* detail's kind, else the node's "any" message, else the engine's; after the "any"
\* message was used for a path no later detail of that path is reported. A field
\* whose node has only "any" and that fails twice has one entry: the first kind,
\* the fallback text.
C6_MessagePrecedence ==
    \A c \in CallIds :
        (Translated(c) /\ calls[c].outcome.err.hasFields) =>
            \A p \in DOMAIN FieldsOf(c) :
                LET ds == DetailsAt(DetailsOf(c), p)
                    entries == FieldsOf(c)[p]
                IN /\ Len(entries) = ReportedCount(c, ds)
                   /\ \A j \in 1..Len(entries) :
                         /\ entries[j].code = ds[j].type
                         /\ entries[j].message = StripFieldPath(NodePicked(c, ds[j]), p)
                   /\ (Len(ds) = 2 /\ DOMAIN NodeMessages(c, ds[1]) = {"any"}) =>
                         /\ Len(entries) = 1
                         /\ entries[1].code = ds[1].type
                         /\ entries[1].message = Capitalize(NodeMessages(c, ds[1])["any"])

IsPrefix(p, m) == Len(m) >= Len(p) /\ SubSeq(m, 1, Len(p)) = p
\* the message as the claim reports it: without a leading repetition of a field
\* path and its separator, capitalized; whole when there is no such repetition
ReportedMessage(m, p) ==
    Capitalize(IF p # <<>> /\ IsPrefix(p, m) THEN SubstrFrom(m, Len(p) + 1) ELSE m)

\* C8: every reported message is the chosen message without a leading repetition
\* of its field path, capitalized; a message that does not begin with a repetition
\* of its field path loses no characters -- for every path, the root path included.
C8_PrefixStripped ==
    \A c \in CallIds :
        Translated(c) =>
            \A p \in DOMAIN FieldsOf(c) :
                \A j \in 1..Len(FieldsOf(c)[p]) :
                    FieldsOf(c)[p][j].message
                       = ReportedMessage(PickedFor(c, DetailsAt(DetailsOf(c), p)[j]), p)

\* C10: for a detail with a path of one or more segments the lookup yields the node
\* at exactly that path, and nothing when the path does not resolve.
C10_NodeAtExactPath ==
    \A c \in CallIds :
        Translated(c) =>
            \A i \in 1..Len(DetailsOf(c)) :
                DetailsOf(c)[i].path # <<>> =>
                    getSchemaField(SchemaOf(c), DetailsOf(c)[i].path)
                       = NodeAtPath(SchemaOf(c), DetailsOf(c)[i].path)

====
